---- MODULE Spec2Model ----
(***************************************************************************)
(* MinimalUltrasonic: the trigger/echo timing engine, the timeout-bounded  *)
(* wait loops and the read() wrapper of src/src/MinimalUltrasonic.cpp.     *)
(*                                                                         *)
(* unsigned long is 32 bits wide.  A value is kept as two 16-bit limbs     *)
(* <<hi, lo>> so that 2^32 arithmetic is exact.                            *)
(* The float returned by read() is kept as an exact rational               *)
(* num / den; IEEE rounding of the quotient is not modelled.  The float    *)
(* product of setMaxDistance is rounded as an IEEE single.                 *)
(* unsigned int is 16 bits wide, as on the AVR boards.                     *)
(***************************************************************************)
EXTENDS Integers, Sequences, FiniteSets, TLC

VARIABLES
    pc,          \* position of the sketch: "new", constructor steps, "idle", timing() steps
    trigPin,     \* _trigPin
    echoPin,     \* _echoPin
    isThreePin,  \* _isThreePin
    timeout,     \* _timeout (unsigned long)
    defaultUnit, \* _defaultUnit
    pinModeOf,   \* hardware: direction of every pin
    pinOut,      \* hardware: output latch of every pin
    echoLine,    \* hardware: level the sensor drives on the echo line
    now,         \* hardware: the micros() counter (unsigned long)
    jumped,      \* the counter made a coarse jump since the last program step
    unitArg,     \* read(): the parameter unit
    startWait,   \* timing(): local startWait
    pulseStart,  \* timing(): local pulseStart
    pulseEnd,    \* timing(): local pulseEnd
    duration,    \* read(): local duration (value returned by timing())
    result,      \* value returned by the last read()
    gpioLog,     \* pinMode/digitalWrite/delayMicroseconds calls of the running or last operation
    t,           \* real time elapsed in the running read(), delays excluded (observer)
    tStartWait,  \* real time at which startWait was taken (observer)
    tPulseStart, \* real time at which pulseStart was taken (observer)
    tPulseEnd,   \* real time at which pulseEnd was taken (observer)
    tRise,       \* real time at which the echo line was first HIGH in the HIGH-wait (observer)
    tFall,       \* real time at which the echo line was first LOW after pulseStart (observer)
    tPoll,       \* real time of the latest micros() call of a waypoint or a timeout test (observer)
    echoChanges, \* level changes of the echo line in the running read() (observer)
    outcome,     \* how the last timing() ended (observer)
    usedDefault, \* the running or last read() was called without a unit argument (observer)
    lastCall,    \* the sketch's last call that was not a getter, with its arguments (observer)
    got,         \* the getter called since then and the value it returned (observer)
    trace,       \* what the echo line and the clock did in the running or last read() (observer)
    prev,        \* the read() before the running or last one (observer)
    other        \* the fields of the sketch's other sensor object; the fields above are those of the object being called

vars == <<pc, trigPin, echoPin, isThreePin, timeout, defaultUnit, pinModeOf,
          pinOut, echoLine, now, jumped, unitArg, startWait, pulseStart,
          pulseEnd, duration, result, gpioLog, t, tStartWait, tPulseStart,
          tPulseEnd, tRise, tFall, tPoll, echoChanges, outcome, usedDefault,
          lastCall, got, trace, prev, other>>

config == <<trigPin, echoPin, isThreePin, timeout, defaultUnit>>
locals == <<startWait, pulseStart, pulseEnd>>
observers == <<tStartWait, tPulseStart, tPulseEnd, tRise, tFall, tPoll>>
sketch == <<lastCall, got>>
history == <<trace, prev>>

-----------------------------------------------------------------------------
(* Bounds of the model *)

MaxTicks == 4
MaxEchoChanges == 2
MaxDuration == 12
MaxRangeTicks == 4
MaxRepeatTicks == 2

-----------------------------------------------------------------------------
(* unsigned long arithmetic *)

Limb == 2^16

U32(n) == <<n \div Limb, n % Limb>>

ULONG_MAX == <<Limb - 1, Limb - 1>>

U32Add(a, b) ==
    LET s == a[2] + b[2]
    IN  <<(a[1] + b[1] + (s \div Limb)) % Limb, s % Limb>>

U32Sub(a, b) ==
    LET d == a[2] - b[2]
        borrow == IF d < 0 THEN 1 ELSE 0
    IN  <<(a[1] - b[1] - borrow) % Limb, d % Limb>>

U32Gt(a, b) == a[1] > b[1] \/ (a[1] = b[1] /\ a[2] > b[2])

IsSmall(a) == a[1] = 0

ToNat(a) == a[2]

-----------------------------------------------------------------------------
(* The float returned by read(), as the exact rational us * num / den with  *)
(* num / den in lowest terms.                                               *)

RECURSIVE GCD(_, _)
GCD(a, b) == IF b = 0 THEN a ELSE GCD(b, a % b)

Rat(us) == [us |-> us, num |-> 1, den |-> 1]

\* r / (p / q)
RatDiv(r, p, q) ==
    LET n == r.num * q
        d == r.den * p
        g == GCD(n, d)
    IN  [us |-> r.us, num |-> n \div g, den |-> d \div g]

\* r * p
RatMul(r, p) ==
    LET n == r.num * p
        g == GCD(n, r.den)
    IN  [us |-> r.us, num |-> n \div g, den |-> r.den \div g]

\* the literal 0.0
Zero == [us |-> U32(0), num |-> 0, den |-> 1]

IsZero(v) == v.num = 0 \/ v.us = U32(0)

-----------------------------------------------------------------------------
(* Types and inputs *)

Units == {"CM", "METERS", "MM", "INCHES", "YARDS", "MILES"}

Levels == {"LOW", "HIGH"}

\* the pins of the board
Pins == {12, 13}

\* pin ids the sketch passes to the constructors as signal or trigger pin,
\* and as echo pin
TrigPins == {12}
EchoPins == {12, 13}

Modes == {"INPUT", "OUTPUT"}

\* the default value of the constructor's parameter timeOut
DefaultTimeout == U32(20000)

\* timeouts the sketch passes to the constructor and to setTimeout (all > 0)
Timeouts == {U32(1), U32(2), ULONG_MAX}

\* value of micros() at the start of a read(): the counter wraps around after
\* the trigger pulse and two more microseconds
ClockStarts == {U32Sub(U32(0), U32(14))}

\* a coarse advance of the micros() counter
BigTick == <<Limb \div 4, 0>>

NoTime == 0 - 1

\* no read() before this one
NoRead == [valid |-> FALSE, unit |-> "CM", start |-> U32(0), trace |-> <<>>,
           outcome |-> "none", result |-> Zero]

\* the position and the locals of a call that is not running: none is
\* suspended
NoFrame == [pc |-> "new", unitArg |-> "CM", startWait |-> U32(0),
            pulseStart |-> U32(0), pulseEnd |-> U32(0), duration |-> U32(0),
            outcome |-> "none"]

\* the sketch's second sensor object, before its constructor has run
NoOther == [id |-> 2, constructed |-> FALSE, trigPin |-> 0, echoPin |-> 0,
            isThreePin |-> FALSE, timeout |-> U32(0), defaultUnit |-> "CM",
            frame |-> NoFrame]

-----------------------------------------------------------------------------
(* The Arduino core, as far as the library uses it *)

\* pinMode(pin, mode)
PinModeCall(pin, mode) ==
    /\ pinModeOf' = [pinModeOf EXCEPT ![pin] = mode]
    /\ gpioLog' = Append(gpioLog, <<"pinMode", pin, mode>>)
    /\ UNCHANGED pinOut

\* digitalWrite(pin, level)
DigitalWriteCall(pin, level) ==
    /\ pinOut' = [pinOut EXCEPT ![pin] = level]
    /\ gpioLog' = Append(gpioLog, <<"digitalWrite", pin, level>>)
    /\ UNCHANGED pinModeOf

\* delayMicroseconds(us): the counter advances by us
DelayCall(us) ==
    /\ now' = U32Add(now, U32(us))
    /\ gpioLog' = Append(gpioLog, <<"delayMicroseconds", us>>)
    /\ UNCHANGED <<pinModeOf, pinOut>>

\* digitalRead(pin): an output pin reads back its latch, an input pin the line
DigitalRead(pin) == IF pinModeOf[pin] = "OUTPUT" THEN pinOut[pin] ELSE echoLine

\* micros()
Micros == now

-----------------------------------------------------------------------------
(* convertToUnit *)

\* MICROSECONDS_PER_CM = 29.1 = 291 / 10
MICROSECONDS_PER_CM_NUM == 291
MICROSECONDS_PER_CM_DEN == 10

\* mutant of distanceCm: the division by MICROSECONDS_PER_CM alone
distanceCm_SingleDivision(microseconds) ==
    RatDiv(Rat(microseconds), MICROSECONDS_PER_CM_NUM, MICROSECONDS_PER_CM_DEN)

\* mutant of distanceCm: the quotient cut to a whole number of centimetres
\* when it is below one
distanceCm_Truncated(microseconds) ==
    IF microseconds[1] = 0 /\ microseconds[2] < 59
    THEN Zero
    ELSE RatDiv(RatDiv(Rat(microseconds), MICROSECONDS_PER_CM_NUM, MICROSECONDS_PER_CM_DEN), 2, 1)

\* float distanceCm = microseconds / MICROSECONDS_PER_CM / 2.0;
distanceCm(microseconds) ==
    RatDiv(RatDiv(Rat(microseconds), MICROSECONDS_PER_CM_NUM, MICROSECONDS_PER_CM_DEN), 2, 1)

\* mutant of convertToUnit: a yard taken for a foot (30.48 cm)
convertToUnit_YardsAsFeet(microseconds, unit) ==
    CASE unit = "CM"     -> distanceCm(microseconds)
      [] unit = "METERS" -> RatDiv(distanceCm(microseconds), 100, 1)
      [] unit = "MM"     -> RatMul(distanceCm(microseconds), 10)
      [] unit = "INCHES" -> RatDiv(distanceCm(microseconds), 254, 100)
      [] unit = "YARDS"  -> RatDiv(distanceCm(microseconds), 3048, 100)
      [] unit = "MILES"  -> RatDiv(distanceCm(microseconds), 1609344, 10)
      [] OTHER           -> distanceCm(microseconds)

\* mutant of convertToUnit: a unit that is no enumerator gives 0
convertToUnit_UnknownIsZero(microseconds, unit) ==
    CASE unit = "CM"     -> distanceCm(microseconds)
      [] unit = "METERS" -> RatDiv(distanceCm(microseconds), 100, 1)
      [] unit = "MM"     -> RatMul(distanceCm(microseconds), 10)
      [] unit = "INCHES" -> RatDiv(distanceCm(microseconds), 254, 100)
      [] unit = "YARDS"  -> RatDiv(distanceCm(microseconds), 9144, 100)
      [] unit = "MILES"  -> RatDiv(distanceCm(microseconds), 1609344, 10)
      [] OTHER           -> Zero

convertToUnit(microseconds, unit) ==
    CASE unit = "CM"     -> distanceCm(microseconds)
      [] unit = "METERS" -> RatDiv(distanceCm(microseconds), 100, 1)
      [] unit = "MM"     -> RatMul(distanceCm(microseconds), 10)
      [] unit = "INCHES" -> RatDiv(distanceCm(microseconds), 254, 100)
      [] unit = "YARDS"  -> RatDiv(distanceCm(microseconds), 9144, 100)
      [] unit = "MILES"  -> RatDiv(distanceCm(microseconds), 1609344, 10)
      [] OTHER           -> distanceCm(microseconds)

-----------------------------------------------------------------------------
(* Initial state: the sketch has not constructed the sensor; every pin is   *)
(* an input, as after reset.                                                *)

Init ==
    /\ pc = "new"
    /\ trigPin = 0
    /\ echoPin = 0
    /\ isThreePin = FALSE
    /\ timeout = U32(0)
    /\ defaultUnit = "CM"
    /\ pinModeOf = [p \in Pins |-> "INPUT"]
    /\ pinOut = [p \in Pins |-> "LOW"]
    /\ echoLine = "LOW"
    /\ now = U32(0)
    /\ jumped = FALSE
    /\ unitArg = "CM"
    /\ startWait = U32(0)
    /\ pulseStart = U32(0)
    /\ pulseEnd = U32(0)
    /\ duration = U32(0)
    /\ result = Zero
    /\ gpioLog = <<>>
    /\ t = 0
    /\ tStartWait = NoTime
    /\ tPulseStart = NoTime
    /\ tPulseEnd = NoTime
    /\ tRise = NoTime
    /\ tFall = NoTime
    /\ tPoll = NoTime
    /\ echoChanges = 0
    /\ outcome = "none"
    /\ usedDefault = FALSE
    /\ lastCall = <<"none">>
    /\ got = <<"none">>
    /\ trace = <<>>
    /\ prev = NoRead
    /\ other = NoOther

readState == <<unitArg, startWait, pulseStart, pulseEnd, duration, result, t,
               tStartWait, tPulseStart, tPulseEnd, tRise, tFall, tPoll,
               echoChanges, outcome, usedDefault, history, other>>

hardware == <<pinModeOf, pinOut, echoLine, now>>

-----------------------------------------------------------------------------
(* Constructors *)

\* mutant of ConstructMain: the flag is never set
ConstructMain_NeverThreePin(trig, echo, timeOut) ==
    /\ pc = "new"
    /\ trigPin' = trig
    /\ echoPin' = echo
    /\ isThreePin' = FALSE
    /\ timeout' = timeOut
    /\ defaultUnit' = "CM"
    /\ pc' = "c_mode_trig"
    /\ jumped' = FALSE
    /\ UNCHANGED <<hardware, gpioLog, readState>>

\* mutant of ConstructMain: the flag is always set
ConstructMain_AlwaysThreePin(trig, echo, timeOut) ==
    /\ pc = "new"
    /\ trigPin' = trig
    /\ echoPin' = echo
    /\ isThreePin' = TRUE
    /\ timeout' = timeOut
    /\ defaultUnit' = "CM"
    /\ pc' = "c_mode_trig"
    /\ jumped' = FALSE
    /\ UNCHANGED <<hardware, gpioLog, readState>>

\* mutant of ConstructMain: the flag set when the pins differ
ConstructMain_FlagInverted(trig, echo, timeOut) ==
    /\ pc = "new"
    /\ trigPin' = trig
    /\ echoPin' = echo
    /\ isThreePin' = (trig # echo)
    /\ timeout' = timeOut
    /\ defaultUnit' = "CM"
    /\ pc' = "c_mode_trig"
    /\ jumped' = FALSE
    /\ UNCHANGED <<hardware, gpioLog, readState>>

\* MinimalUltrasonic(trigPin, echoPin, timeOut): the member initialisers
ConstructMain(trig, echo, timeOut) ==
    /\ pc = "new"
    /\ trigPin' = trig
    /\ echoPin' = echo
    /\ isThreePin' = (trig = echo)
    /\ timeout' = timeOut
    /\ defaultUnit' = "CM"
    /\ pc' = "c_mode_trig"
    /\ jumped' = FALSE
    /\ UNCHANGED <<hardware, gpioLog, readState>>

\* MinimalUltrasonic(sigPin) delegates to the main constructor
Construct1Call(sigPin) ==
    /\ ConstructMain(sigPin, sigPin, DefaultTimeout)
    /\ lastCall' = <<"MinimalUltrasonic", sigPin>>
    /\ got' = <<"none">>

\* MinimalUltrasonic(trigPin, echoPin, timeOut = 20000UL)
Construct3Call(trig, echo, timeOut) ==
    /\ ConstructMain(trig, echo, timeOut)
    /\ lastCall' = <<"MinimalUltrasonic", trig, echo, timeOut>>
    /\ got' = <<"none">>

Construct1 == \E sigPin \in TrigPins : Construct1Call(sigPin)

Construct3 ==
    \E trig \in TrigPins, echo \in EchoPins, timeOut \in Timeouts \cup {DefaultTimeout} :
        Construct3Call(trig, echo, timeOut)

\* pinMode(_trigPin, OUTPUT)
C_ModeTrig ==
    /\ pc = "c_mode_trig"
    /\ PinModeCall(trigPin, "OUTPUT")
    /\ pc' = "c_mode_echo"
    /\ jumped' = FALSE
    /\ UNCHANGED <<config, echoLine, now, readState, sketch>>

\* pinMode(_echoPin, INPUT)
C_ModeEcho ==
    /\ pc = "c_mode_echo"
    /\ PinModeCall(echoPin, "INPUT")
    /\ pc' = "c_write_low"
    /\ jumped' = FALSE
    /\ UNCHANGED <<config, echoLine, now, readState, sketch>>

\* digitalWrite(_trigPin, LOW)
C_WriteLow ==
    /\ pc = "c_write_low"
    /\ DigitalWriteCall(trigPin, "LOW")
    /\ pc' = "idle"
    /\ jumped' = FALSE
    /\ UNCHANGED <<config, echoLine, now, readState, sketch>>

-----------------------------------------------------------------------------
(* Configuration *)

\* mutant of SetTimeoutCall: a timeout of 0 is refused
SetTimeoutCall_Validated(timeOut) ==
    /\ pc = "idle"
    /\ timeout' = IF timeOut = U32(0) THEN timeout ELSE timeOut
    /\ lastCall' = <<"setTimeout", timeOut>>
    /\ got' = <<"none">>
    /\ jumped' = FALSE
    /\ UNCHANGED <<pc, trigPin, echoPin, isThreePin, defaultUnit, hardware,
                   gpioLog, readState>>

\* _timeout = timeOut;
SetTimeoutCall(timeOut) ==
    /\ pc = "idle"
    /\ timeout' = timeOut
    /\ lastCall' = <<"setTimeout", timeOut>>
    /\ got' = <<"none">>
    /\ jumped' = FALSE
    /\ UNCHANGED <<pc, trigPin, echoPin, isThreePin, defaultUnit, hardware,
                   gpioLog, readState>>

setTimeout == \E timeOut \in Timeouts : SetTimeoutCall(timeOut)

\* unsigned int is 16 bits wide on the boards the library is tested on
\* (Arduino Uno, Mega 2560)
UINT_MAX == Limb - 1

\* MICROSECONDS_PER_CM as a float: the IEEE single nearest to 29.1 is
\* 15256781 / 2^19
MICROSECONDS_PER_CM_F32 == 15256781

RECURSIVE BitLen(_)
BitLen(n) == IF n = 0 THEN 0 ELSE 1 + BitLen(n \div 2)

\* n * MICROSECONDS_PER_CM for an unsigned int n: the product is rounded to
\* the 24 bits of a float (to nearest, ties to even) and the float is
\* truncated to unsigned long by the assignment.  The exact product is
\* whole + frac / 2^19.
FloatProductToULong(n) ==
    LET mh    == MICROSECONDS_PER_CM_F32 \div 2^12
        ml    == MICROSECONDS_PER_CM_F32 % 2^12
        low   == ((n * mh) % 2^7) * 2^12 + n * ml
        whole == (n * mh) \div 2^7 + low \div 2^19
        frac  == low % 2^19
        drop  == BitLen(whole) - 5
        ulp   == 2^drop
        kept  == frac \div ulp
        rest  == frac % ulp
        up    == rest * 2 > ulp \/ (rest * 2 = ulp /\ kept % 2 = 1)
    IN  IF drop <= 0 THEN whole
        ELSE IF (kept + (IF up THEN 1 ELSE 0)) * ulp = 2^19 THEN whole + 1
        ELSE whole

\* distance * 2 * MICROSECONDS_PER_CM, where distance * 2 is an unsigned int
\* product
MaxDistanceTimeout(distance) ==
    U32(FloatProductToULong((distance * 2) % (UINT_MAX + 1)))

\* mutant of SetMaxDistanceCall: the unit goes back to its default as well
SetMaxDistanceCall_ResetsUnit(distance) ==
    /\ pc = "idle"
    /\ timeout' = MaxDistanceTimeout(distance)
    /\ defaultUnit' = "CM"
    /\ lastCall' = <<"setMaxDistance", distance>>
    /\ got' = <<"none">>
    /\ jumped' = FALSE
    /\ UNCHANGED <<pc, trigPin, echoPin, isThreePin, hardware, gpioLog,
                   readState>>

\* _timeout = distance * 2 * MICROSECONDS_PER_CM;
SetMaxDistanceCall(distance) ==
    /\ pc = "idle"
    /\ timeout' = MaxDistanceTimeout(distance)
    /\ lastCall' = <<"setMaxDistance", distance>>
    /\ got' = <<"none">>
    /\ jumped' = FALSE
    /\ UNCHANGED <<pc, trigPin, echoPin, isThreePin, defaultUnit, hardware,
                   gpioLog, readState>>

\* return _timeout;
getTimeout ==
    /\ pc = "idle"
    /\ got' = <<"getTimeout", timeout>>
    /\ jumped' = FALSE
    /\ UNCHANGED <<pc, config, hardware, gpioLog, readState, lastCall>>

\* mutant of getUnit: the unit the constructor set
getUnit_Constructed ==
    /\ pc = "idle"
    /\ got' = <<"getUnit", "CM">>
    /\ jumped' = FALSE
    /\ UNCHANGED <<pc, config, hardware, gpioLog, readState, lastCall>>

\* return _defaultUnit;
getUnit ==
    /\ pc = "idle"
    /\ got' = <<"getUnit", defaultUnit>>
    /\ jumped' = FALSE
    /\ UNCHANGED <<pc, config, hardware, gpioLog, readState, lastCall>>

\* mutant of setUnit: _defaultUnit as a static member, one for all objects
setUnit_Static ==
    /\ pc = "idle"
    /\ \E unit \in Units :
          /\ defaultUnit' = unit
          /\ other' = [other EXCEPT !.defaultUnit = unit]
          /\ lastCall' = <<"setUnit", unit>>
    /\ got' = <<"none">>
    /\ jumped' = FALSE
    /\ UNCHANGED <<pc, trigPin, echoPin, isThreePin, timeout, hardware,
                   gpioLog, unitArg, startWait, pulseStart, pulseEnd,
                   duration, result, t, tStartWait, tPulseStart, tPulseEnd,
                   tRise, tFall, tPoll, echoChanges, outcome, usedDefault,
                   trace, prev>>

\* _defaultUnit = unit;
setUnit ==
    /\ pc = "idle"
    /\ \E unit \in Units :
          /\ defaultUnit' = unit
          /\ lastCall' = <<"setUnit", unit>>
    /\ got' = <<"none">>
    /\ jumped' = FALSE
    /\ UNCHANGED <<pc, trigPin, echoPin, isThreePin, timeout, hardware,
                   gpioLog, readState>>

-----------------------------------------------------------------------------
(* read(Unit unit = CM) const *)

\* the default argument of read() in the class declaration
ReadDefaultArgument == "CM"

\* The call.  The counter and the echo line are wherever the time since the
\* last operation left them.
BeginReadAt(unit, byDefault, starts) ==
    /\ pc = "idle"
    /\ unitArg' = unit
    /\ usedDefault' = byDefault
    /\ pc' = "t_mode_out"
    /\ now' \in starts
    /\ echoLine' \in Levels
    /\ jumped' = FALSE
    /\ startWait' = U32(0)
    /\ pulseStart' = U32(0)
    /\ pulseEnd' = U32(0)
    /\ duration' = U32(0)
    /\ result' = Zero
    /\ gpioLog' = <<>>
    /\ t' = 0
    /\ tStartWait' = NoTime
    /\ tPulseStart' = NoTime
    /\ tPulseEnd' = NoTime
    /\ tRise' = NoTime
    /\ tFall' = NoTime
    /\ tPoll' = NoTime
    /\ echoChanges' = 0
    /\ outcome' = "none"
    /\ lastCall' = <<"read">>
    /\ got' = <<"none">>
    /\ UNCHANGED <<config, pinModeOf, pinOut, other>>

BeginRead(unit, byDefault) ==
    /\ BeginReadAt(unit, byDefault, ClockStarts)
    /\ UNCHANGED history

\* sensor.read(unit)
ReadUnit == \E unit \in Units : BeginRead(unit, FALSE)

\* sensor.read()
ReadNoArg == BeginRead(ReadDefaultArgument, TRUE)

\* if (duration == 0) return 0.0; return convertToUnit(duration, unit);
ReadResult(d, unit) == IF d = U32(0) THEN Zero ELSE convertToUnit(d, unit)

\* mutant of ReadReturn: the unit of the call becomes the default unit
ReadReturn_KeepsUnit ==
    /\ pc = "r_return"
    /\ result' = ReadResult(duration, unitArg)
    /\ defaultUnit' = unitArg
    /\ pc' = "returned"
    /\ jumped' = FALSE
    /\ UNCHANGED <<trigPin, echoPin, isThreePin, timeout, hardware, gpioLog,
                   unitArg, startWait, pulseStart, pulseEnd, duration, t,
                   observers, echoChanges, outcome, usedDefault, sketch, history, other>>

ReadReturn ==
    /\ pc = "r_return"
    /\ result' = ReadResult(duration, unitArg)
    /\ pc' = "returned"
    /\ jumped' = FALSE
    /\ UNCHANGED <<config, hardware, gpioLog, unitArg, startWait, pulseStart,
                   pulseEnd, duration, t, observers, echoChanges, outcome,
                   usedDefault, sketch, history, other>>

\* The sketch uses the returned value (prints it, compares it) and drops it;
\* the locals of the call are gone.
ConsumeResult ==
    /\ pc = "returned"
    /\ pc' = "idle"
    /\ unitArg' = ReadDefaultArgument
    /\ usedDefault' = FALSE
    /\ startWait' = U32(0)
    /\ pulseStart' = U32(0)
    /\ pulseEnd' = U32(0)
    /\ duration' = U32(0)
    /\ result' = Zero
    /\ gpioLog' = <<>>
    /\ t' = 0
    /\ tStartWait' = NoTime
    /\ tPulseStart' = NoTime
    /\ tPulseEnd' = NoTime
    /\ tRise' = NoTime
    /\ tFall' = NoTime
    /\ tPoll' = NoTime
    /\ echoChanges' = 0
    /\ outcome' = "none"
    /\ now' = U32(0)
    /\ echoLine' = "LOW"
    /\ jumped' = FALSE
    /\ UNCHANGED <<config, pinModeOf, pinOut, sketch, other>>

Consume ==
    /\ ConsumeResult
    /\ UNCHANGED history

-----------------------------------------------------------------------------
(* timing() const *)

timingFrame == <<config, echoLine, unitArg, result, t, echoChanges, usedDefault,
                 sketch, history, other>>

\* if (_isThreePin) pinMode(_trigPin, OUTPUT);
T_ModeOut ==
    /\ pc = "t_mode_out"
    /\ IF isThreePin
       THEN PinModeCall(trigPin, "OUTPUT")
       ELSE UNCHANGED <<pinModeOf, pinOut, gpioLog>>
    /\ pc' = "t_low1"
    /\ jumped' = FALSE
    /\ UNCHANGED <<timingFrame, now, locals, duration, observers, outcome>>

\* digitalWrite(_trigPin, LOW);
T_Low1 ==
    /\ pc = "t_low1"
    /\ DigitalWriteCall(trigPin, "LOW")
    /\ pc' = "t_delay2"
    /\ jumped' = FALSE
    /\ UNCHANGED <<timingFrame, now, locals, duration, observers, outcome>>

\* delayMicroseconds(2);
T_Delay2 ==
    /\ pc = "t_delay2"
    /\ DelayCall(2)
    /\ pc' = "t_high"
    /\ jumped' = FALSE
    /\ UNCHANGED <<timingFrame, locals, duration, observers, outcome>>

\* mutant of T_High: the trigger pin is pin 12, whatever the object
T_High_FixedPin ==
    /\ pc = "t_high"
    /\ DigitalWriteCall(12, "HIGH")
    /\ pc' = "t_delay10"
    /\ jumped' = FALSE
    /\ UNCHANGED <<timingFrame, now, locals, duration, observers, outcome>>

\* digitalWrite(_trigPin, HIGH);
T_High ==
    /\ pc = "t_high"
    /\ DigitalWriteCall(trigPin, "HIGH")
    /\ pc' = "t_delay10"
    /\ jumped' = FALSE
    /\ UNCHANGED <<timingFrame, now, locals, duration, observers, outcome>>

\* mutant of T_Delay10: the HIGH level is held as long as the LOW level before it
T_Delay10_Short ==
    /\ pc = "t_delay10"
    /\ DelayCall(2)
    /\ pc' = "t_low2"
    /\ jumped' = FALSE
    /\ UNCHANGED <<timingFrame, locals, duration, observers, outcome>>

\* delayMicroseconds(10);
T_Delay10 ==
    /\ pc = "t_delay10"
    /\ DelayCall(10)
    /\ pc' = "t_low2"
    /\ jumped' = FALSE
    /\ UNCHANGED <<timingFrame, locals, duration, observers, outcome>>

\* mutant of T_Low2: the trigger pin is left HIGH
T_Low2_Missing ==
    /\ pc = "t_low2"
    /\ pc' = "t_mode_in"
    /\ jumped' = FALSE
    /\ UNCHANGED <<timingFrame, now, locals, duration, observers, outcome,
                   pinModeOf, pinOut, gpioLog>>

\* digitalWrite(_trigPin, LOW);
T_Low2 ==
    /\ pc = "t_low2"
    /\ DigitalWriteCall(trigPin, "LOW")
    /\ pc' = "t_mode_in"
    /\ jumped' = FALSE
    /\ UNCHANGED <<timingFrame, now, locals, duration, observers, outcome>>

\* mutant of T_ModeIn: the shared pin is left an output
T_ModeIn_Missing ==
    /\ pc = "t_mode_in"
    /\ pc' = "t_start_wait"
    /\ jumped' = FALSE
    /\ UNCHANGED <<timingFrame, now, pinModeOf, pinOut, gpioLog, locals,
                   duration, observers, outcome>>

\* if (_isThreePin) pinMode(_trigPin, INPUT);
T_ModeIn ==
    /\ pc = "t_mode_in"
    /\ IF isThreePin
       THEN PinModeCall(trigPin, "INPUT")
       ELSE UNCHANGED <<pinModeOf, pinOut, gpioLog>>
    /\ pc' = "t_start_wait"
    /\ jumped' = FALSE
    /\ UNCHANGED <<timingFrame, now, locals, duration, observers, outcome>>

\* unsigned long startWait = micros();
T_StartWait ==
    /\ pc = "t_start_wait"
    /\ startWait' = Micros
    /\ tStartWait' = t
    /\ tRise' = IF echoLine = "HIGH" THEN t ELSE NoTime
    /\ tPoll' = t
    /\ pc' = "t_sample_high"
    /\ jumped' = FALSE
    /\ UNCHANGED <<timingFrame, now, pinModeOf, pinOut, gpioLog, pulseStart,
                   pulseEnd, duration, tPulseStart, tPulseEnd, tFall, outcome>>

\* while (!digitalRead(_echoPin))
T_SampleHigh ==
    /\ pc = "t_sample_high"
    /\ pc' = IF DigitalRead(echoPin) = "LOW" THEN "t_check_high" ELSE "t_pulse_start"
    /\ jumped' = FALSE
    /\ UNCHANGED <<timingFrame, now, pinModeOf, pinOut, gpioLog, locals,
                   duration, observers, outcome>>

\* mutant of TimedOut: micros() > since + _timeout, wrong when the counter wraps
TimedOut_NoWrap(since) == U32Gt(Micros, U32Add(since, timeout))

\* mutant of TimedOut: >= for >
TimedOut_Ge(since) == ~U32Gt(timeout, U32Sub(Micros, since))

\* (micros() - since) > _timeout
TimedOut(since) == U32Gt(U32Sub(Micros, since), timeout)

\* mutant of T_CheckHigh: after a timeout the pulse is sent again
T_CheckHigh_Retry ==
    /\ pc = "t_check_high"
    /\ IF TimedOut(startWait)
       THEN /\ pc' = "t_mode_out"
            /\ UNCHANGED <<duration, outcome>>
       ELSE /\ pc' = "t_sample_high"
            /\ UNCHANGED <<duration, outcome>>
    /\ jumped' = FALSE
    /\ tPoll' = t
    /\ UNCHANGED <<timingFrame, now, pinModeOf, pinOut, gpioLog, locals,
                   tStartWait, tPulseStart, tPulseEnd, tRise, tFall>>

\* if ((micros() - startWait) > _timeout) return 0;
T_CheckHigh ==
    /\ pc = "t_check_high"
    /\ IF TimedOut(startWait)
       THEN /\ duration' = U32(0)
            /\ outcome' = "timeout_high"
            /\ pc' = "r_return"
       ELSE /\ pc' = "t_sample_high"
            /\ UNCHANGED <<duration, outcome>>
    /\ jumped' = FALSE
    /\ tPoll' = t
    /\ UNCHANGED <<timingFrame, now, pinModeOf, pinOut, gpioLog, locals,
                   tStartWait, tPulseStart, tPulseEnd, tRise, tFall>>

\* unsigned long pulseStart = micros();
T_PulseStart ==
    /\ pc = "t_pulse_start"
    /\ pulseStart' = Micros
    /\ tPulseStart' = t
    /\ tFall' = IF echoLine = "LOW" THEN t ELSE NoTime
    /\ tPoll' = t
    /\ pc' = "t_sample_low"
    /\ jumped' = FALSE
    /\ UNCHANGED <<timingFrame, now, pinModeOf, pinOut, gpioLog, startWait,
                   pulseEnd, duration, tStartWait, tPulseEnd, tRise, outcome>>

\* while (digitalRead(_echoPin))
T_SampleLow ==
    /\ pc = "t_sample_low"
    /\ pc' = IF DigitalRead(echoPin) = "HIGH" THEN "t_check_low" ELSE "t_pulse_end"
    /\ jumped' = FALSE
    /\ UNCHANGED <<timingFrame, now, pinModeOf, pinOut, gpioLog, locals,
                   duration, observers, outcome>>

\* mutant of T_CheckLow: one window for both waits, counted from startWait
T_CheckLow_FromStartWait ==
    /\ pc = "t_check_low"
    /\ IF TimedOut(startWait)
       THEN /\ duration' = U32(0)
            /\ outcome' = "timeout_low"
            /\ pc' = "r_return"
       ELSE /\ pc' = "t_sample_low"
            /\ UNCHANGED <<duration, outcome>>
    /\ jumped' = FALSE
    /\ tPoll' = t
    /\ UNCHANGED <<timingFrame, now, pinModeOf, pinOut, gpioLog, locals,
                   tStartWait, tPulseStart, tPulseEnd, tRise, tFall>>

\* if ((micros() - pulseStart) > _timeout) return 0;
T_CheckLow ==
    /\ pc = "t_check_low"
    /\ IF TimedOut(pulseStart)
       THEN /\ duration' = U32(0)
            /\ outcome' = "timeout_low"
            /\ pc' = "r_return"
       ELSE /\ pc' = "t_sample_low"
            /\ UNCHANGED <<duration, outcome>>
    /\ jumped' = FALSE
    /\ tPoll' = t
    /\ UNCHANGED <<timingFrame, now, pinModeOf, pinOut, gpioLog, locals,
                   tStartWait, tPulseStart, tPulseEnd, tRise, tFall>>

\* mutant of T_PulseEnd: pulseEnd is returned, pulseStart is not subtracted
T_PulseEnd_Absolute ==
    /\ pc = "t_pulse_end"
    /\ pulseEnd' = Micros
    /\ tPulseEnd' = t
    /\ duration' = Micros
    /\ outcome' = "measured"
    /\ pc' = "r_return"
    /\ jumped' = FALSE
    /\ UNCHANGED <<timingFrame, now, pinModeOf, pinOut, gpioLog, startWait,
                   pulseStart, tStartWait, tPulseStart, tRise, tFall, tPoll>>

\* mutant of T_PulseEnd: the time since startWait is returned
T_PulseEnd_FromStartWait ==
    /\ pc = "t_pulse_end"
    /\ pulseEnd' = Micros
    /\ tPulseEnd' = t
    /\ duration' = U32Sub(Micros, startWait)
    /\ outcome' = "measured"
    /\ pc' = "r_return"
    /\ jumped' = FALSE
    /\ UNCHANGED <<timingFrame, now, pinModeOf, pinOut, gpioLog, startWait,
                   pulseStart, tStartWait, tPulseStart, tRise, tFall, tPoll>>

\* mutant of T_PulseEnd: a difference below 0 is returned as 0
T_PulseEnd_Clamped ==
    /\ pc = "t_pulse_end"
    /\ pulseEnd' = Micros
    /\ tPulseEnd' = t
    /\ duration' = IF U32Gt(pulseStart, Micros) THEN U32(0)
                   ELSE U32Sub(Micros, pulseStart)
    /\ outcome' = "measured"
    /\ pc' = "r_return"
    /\ jumped' = FALSE
    /\ UNCHANGED <<timingFrame, now, pinModeOf, pinOut, gpioLog, startWait,
                   pulseStart, tStartWait, tPulseStart, tRise, tFall, tPoll>>

\* unsigned long pulseEnd = micros(); return pulseEnd - pulseStart;
T_PulseEnd ==
    /\ pc = "t_pulse_end"
    /\ pulseEnd' = Micros
    /\ tPulseEnd' = t
    /\ duration' = U32Sub(Micros, pulseStart)
    /\ outcome' = "measured"
    /\ pc' = "r_return"
    /\ jumped' = FALSE
    /\ UNCHANGED <<timingFrame, now, pinModeOf, pinOut, gpioLog, startWait,
                   pulseStart, tStartWait, tPulseStart, tRise, tFall, tPoll>>

-----------------------------------------------------------------------------
(* The environment while timing() polls: the clock and the echo line *)

WaitPcs == {"t_sample_high", "t_check_high", "t_pulse_start", "t_sample_low",
            "t_check_low", "t_pulse_end"}

\* one microsecond passes
Tick ==
    /\ pc \in WaitPcs
    /\ t < MaxTicks
    /\ now' = U32Add(now, U32(1))
    /\ t' = t + 1
    /\ UNCHANGED <<pc, config, pinModeOf, pinOut, echoLine, jumped, unitArg,
                   locals, duration, result, gpioLog, observers, echoChanges,
                   outcome, usedDefault, sketch, history, other>>

\* the sensor changes the level of the echo line
EchoChange ==
    /\ pc \in WaitPcs
    /\ echoChanges < MaxEchoChanges
    /\ echoChanges' = echoChanges + 1
    /\ echoLine' = IF echoLine = "LOW" THEN "HIGH" ELSE "LOW"
    /\ tRise' = IF tRise = NoTime /\ echoLine = "LOW" THEN t ELSE tRise
    /\ tFall' = IF tPulseStart # NoTime /\ tFall = NoTime /\ echoLine = "HIGH"
                THEN t ELSE tFall
    /\ UNCHANGED <<pc, config, pinModeOf, pinOut, now, jumped, unitArg, locals,
                   duration, result, gpioLog, t, tStartWait, tPulseStart,
                   tPulseEnd, tPoll, outcome, usedDefault, sketch, history, other>>

\* a long time passes between two steps of the program
CoarseTick ==
    /\ pc \in WaitPcs
    /\ ~jumped
    /\ jumped' = TRUE
    /\ now' = U32Add(now, BigTick)
    /\ UNCHANGED <<pc, config, pinModeOf, pinOut, echoLine, unitArg, locals,
                   duration, result, gpioLog, t, observers, echoChanges,
                   outcome, usedDefault, sketch, history, other>>

-----------------------------------------------------------------------------
(* Specifications *)

Construct == Construct1 \/ Construct3 \/ C_ModeTrig \/ C_ModeEcho \/ C_WriteLow

Configure == setTimeout \/ setUnit

Read == ReadUnit \/ ReadNoArg \/ ReadReturn \/ Consume

Timing ==
    \/ T_ModeOut \/ T_Low1 \/ T_Delay2 \/ T_High \/ T_Delay10 \/ T_Low2
    \/ T_ModeIn \/ T_StartWait \/ T_SampleHigh \/ T_CheckHigh \/ T_PulseStart
    \/ T_SampleLow \/ T_CheckLow \/ T_PulseEnd

Program == Construct \/ Configure \/ Read \/ Timing

Next == Program \/ Tick \/ EchoChange

Spec == Init /\ [][Next]_vars

\* The sketch of the liveness check: the units play no part in termination.
NextLive ==
    \/ Construct \/ setTimeout \/ ReadNoArg \/ ReadReturn \/ Consume \/ Timing
    \/ Tick \/ EchoChange \/ CoarseTick

\* The processor keeps executing the statements of a running read() and the
\* microsecond counter keeps advancing.
SpecLive ==
    /\ Init
    /\ [][NextLive]_vars
    /\ WF_vars(Timing \/ ReadReturn)
    /\ WF_vars(Tick \/ CoarseTick)

-----------------------------------------------------------------------------
(* convertToUnit on its own: every duration of Durations in every unit *)

\* durations handed to convertToUnit: the small ones, round values of the
\* documentation and the ends of the range of unsigned long
Durations ==
    {U32(n) : n \in 1..MaxDuration}
        \cup {U32(582), U32(1470), U32(5820), U32(5882), U32(20000),
              <<1, 0>>, ULONG_MAX}

\* a call of convertToUnit(duration, unit) with the unit among units
InitConvertOver(units) ==
    /\ pc = "convert"
    /\ duration \in Durations
    /\ unitArg \in units
    /\ trigPin = 0
    /\ echoPin = 0
    /\ isThreePin = FALSE
    /\ timeout = U32(0)
    /\ defaultUnit = "CM"
    /\ pinModeOf = [p \in Pins |-> "INPUT"]
    /\ pinOut = [p \in Pins |-> "LOW"]
    /\ echoLine = "LOW"
    /\ now = U32(0)
    /\ jumped = FALSE
    /\ startWait = U32(0)
    /\ pulseStart = U32(0)
    /\ pulseEnd = U32(0)
    /\ result = Zero
    /\ gpioLog = <<>>
    /\ t = 0
    /\ tStartWait = NoTime
    /\ tPulseStart = NoTime
    /\ tPulseEnd = NoTime
    /\ tRise = NoTime
    /\ tFall = NoTime
    /\ tPoll = NoTime
    /\ echoChanges = 0
    /\ outcome = "none"
    /\ usedDefault = FALSE
    /\ lastCall = <<"none">>
    /\ got = <<"none">>
    /\ trace = <<>>
    /\ prev = NoRead
    /\ other = NoOther

\* return convertToUnit(duration, unit);
Convert ==
    /\ pc = "convert"
    /\ result' = convertToUnit(duration, unitArg)
    /\ pc' = "converted"
    /\ UNCHANGED <<config, hardware, jumped, unitArg, locals, duration, gpioLog,
                   t, observers, echoChanges, outcome, usedDefault, sketch, history, other>>

InitConvert == InitConvertOver(Units)

NextConvert == Convert

SpecConvert == InitConvert /\ [][NextConvert]_vars

\* Unit is an enum with the underlying type uint8_t: a cast makes a Unit of
\* any value of 0..255, and read(Unit) and setUnit(Unit) pass it on to
\* convertToUnit. These are values outside CM = 0 .. MILES = 5, in decimal.
OtherUnitValues == {"6", "7", "128", "255"}

InitConvertAny == InitConvertOver(Units \cup OtherUnitValues)

SpecConvertAny == InitConvertAny /\ [][NextConvert]_vars

-----------------------------------------------------------------------------
(* The configuration on its own: a sketch that constructs a sensor on any   *)
(* pins, configures it and asks for the configuration, without reading.     *)

\* values of the parameter timeOut, 0 included: nothing validates it
AnyTimeouts == {U32(0), U32(1), DefaultTimeout, <<0, Limb - 1>>, <<1, 0>>, ULONG_MAX}

\* values of the parameter distance
Distances == {0, 1, 2, 200, 500, 32767, 32768, 40000, UINT_MAX}

ConfigConstruct1 == \E sigPin \in Pins : Construct1Call(sigPin)

ConfigConstruct3 ==
    \E trig \in Pins, echo \in Pins, timeOut \in AnyTimeouts :
        Construct3Call(trig, echo, timeOut)

ConfigSetTimeout == \E timeOut \in AnyTimeouts : SetTimeoutCall(timeOut)

setMaxDistance == \E distance \in Distances : SetMaxDistanceCall(distance)

NextConfig ==
    \/ ConfigConstruct1 \/ ConfigConstruct3 \/ C_ModeTrig \/ C_ModeEcho \/ C_WriteLow
    \/ ConfigSetTimeout \/ setMaxDistance \/ setUnit \/ getTimeout \/ getUnit

SpecConfig == Init /\ [][NextConfig]_vars

-----------------------------------------------------------------------------
(* setMaxDistance on its own: every value of its parameter, on a sensor     *)
(* that was just constructed                                                *)

setMaxDistanceFirst ==
    /\ lastCall[1] = "MinimalUltrasonic"
    /\ \E distance \in 0..UINT_MAX : SetMaxDistanceCall(distance)

NextMaxDistance ==
    \/ Construct1 \/ C_ModeTrig \/ C_ModeEcho \/ C_WriteLow
    \/ setMaxDistanceFirst \/ getTimeout

SpecMaxDistance == Init /\ [][NextMaxDistance]_vars

-----------------------------------------------------------------------------
(* Reading within a maximum distance: a two-pin sensor whose range is set   *)
(* with setMaxDistance before it is read in centimetres.  The clock is      *)
(* seen in steps of the time sound takes for one centimetre.                *)

\* maximum distances the sketch sets
RangeDistances == {1, 2}

\* microseconds per step of the clock: 29
RangeTickStep == MICROSECONDS_PER_CM_NUM \div MICROSECONDS_PER_CM_DEN

RangeConstruct == \E trig \in TrigPins : \E echo \in EchoPins \ {trig} :
                      Construct3Call(trig, echo, DefaultTimeout)

RangeSetMaxDistance == \E distance \in RangeDistances : SetMaxDistanceCall(distance)

\* sensor.read(CM), once the range is set
RangeRead ==
    /\ lastCall[1] \in {"setMaxDistance", "read"}
    /\ BeginRead("CM", FALSE)

\* RangeTickStep microseconds pass
RangeTick ==
    /\ pc \in WaitPcs
    /\ t < MaxRangeTicks * RangeTickStep
    /\ now' = U32Add(now, U32(RangeTickStep))
    /\ t' = t + RangeTickStep
    /\ UNCHANGED <<pc, config, pinModeOf, pinOut, echoLine, jumped, unitArg,
                   locals, duration, result, gpioLog, observers, echoChanges,
                   outcome, usedDefault, sketch, history, other>>

NextRange ==
    \/ RangeConstruct \/ C_ModeTrig \/ C_ModeEcho \/ C_WriteLow
    \/ RangeSetMaxDistance \/ RangeRead \/ ReadReturn \/ Consume \/ Timing
    \/ RangeTick \/ EchoChange

SpecRange == Init /\ [][NextRange]_vars

-----------------------------------------------------------------------------
(* Reading again: a sketch that reads one sensor repeatedly without         *)
(* changing its configuration.  In the first read() the echo line and the   *)
(* clock are free; in every later read() they may only do what they did at  *)
(* the same point of the read() before.                                     *)

\* the counter at the start of a read(): about to wrap around, or just
\* wrapped
RepeatClockStarts == ClockStarts \cup {U32(0)}

RepeatUnits == {"CM", "INCHES"}

RepeatConstruct ==
    \E trig \in TrigPins, echo \in EchoPins : Construct3Call(trig, echo, U32(1))

\* sensor.read(unit)
RepeatRead ==
    \E unit \in RepeatUnits :
        /\ BeginReadAt(unit, FALSE, RepeatClockStarts)
        /\ prev.valid => echoLine' = prev.trace[1][2]
        /\ trace' = << <<"start", echoLine'>> >>
        /\ UNCHANGED prev

\* the sketch keeps the value for the comparison with the next one
RepeatConsume ==
    /\ ConsumeResult
    /\ prev' = [valid |-> TRUE, unit |-> unitArg,
                start |-> U32Sub(U32Sub(now, U32(t)), U32(2 + 10)),
                trace |-> trace, outcome |-> outcome, result |-> result]
    /\ trace' = <<>>

\* anything may happen in the first read(); afterwards only what happened at
\* this point of the read() before
MayHappen(event) ==
    \/ ~prev.valid
    \/ Len(trace) < Len(prev.trace) /\ prev.trace[Len(trace) + 1] = event

\* one microsecond passes
RepeatTick ==
    /\ pc \in WaitPcs
    /\ t < MaxRepeatTicks
    /\ MayHappen(<<"tick", pc>>)
    /\ now' = U32Add(now, U32(1))
    /\ t' = t + 1
    /\ trace' = Append(trace, <<"tick", pc>>)
    /\ UNCHANGED <<pc, config, pinModeOf, pinOut, echoLine, jumped, unitArg,
                   locals, duration, result, gpioLog, observers, echoChanges,
                   outcome, usedDefault, sketch, prev, other>>

\* the sensor changes the level of the echo line
RepeatEchoChange ==
    /\ pc \in WaitPcs
    /\ echoChanges < MaxEchoChanges
    /\ MayHappen(<<"echo", pc>>)
    /\ echoChanges' = echoChanges + 1
    /\ echoLine' = IF echoLine = "LOW" THEN "HIGH" ELSE "LOW"
    /\ tRise' = IF tRise = NoTime /\ echoLine = "LOW" THEN t ELSE tRise
    /\ tFall' = IF tPulseStart # NoTime /\ tFall = NoTime /\ echoLine = "HIGH"
                THEN t ELSE tFall
    /\ trace' = Append(trace, <<"echo", pc>>)
    /\ UNCHANGED <<pc, config, pinModeOf, pinOut, now, jumped, unitArg, locals,
                   duration, result, gpioLog, t, tStartWait, tPulseStart,
                   tPulseEnd, tPoll, outcome, usedDefault, sketch, prev, other>>

NextRepeat ==
    \/ RepeatConstruct \/ C_ModeTrig \/ C_ModeEcho \/ C_WriteLow
    \/ RepeatRead \/ ReadReturn \/ RepeatConsume \/ Timing
    \/ RepeatTick \/ RepeatEchoChange

SpecRepeat == Init /\ [][NextRepeat]_vars

-----------------------------------------------------------------------------
(* The constructor called with a pin and a timeout, as in                   *)
(* MinimalUltrasonic sensor(13, 30000UL): the class declares                *)
(* MinimalUltrasonic(uint8_t sigPin) and MinimalUltrasonic(uint8_t trigPin, *)
(* uint8_t echoPin, unsigned long timeOut = 20000UL) and nothing else, so   *)
(* the call binds to the second one, the timeout converted to the uint8_t   *)
(* echoPin and timeOut left at its default.                                 *)

\* the values of a uint8_t pin id
PinIds == 0..255

\* conversion of an unsigned long to uint8_t: the low eight bits
Uint8(a) == a[2] % 256

\* timeouts passed as second argument
TwoArgTimeouts == {U32(1), U32(12), U32(13), U32(269), DefaultTimeout,
                   U32(30000), U32(40000), <<1, 0>>, <<1, 13>>, ULONG_MAX}

\* every pin id the converted timeout can name is an input after reset
InitTwoArgs ==
    /\ pc = "new"
    /\ trigPin = 0
    /\ echoPin = 0
    /\ isThreePin = FALSE
    /\ timeout = U32(0)
    /\ defaultUnit = "CM"
    /\ pinModeOf = [p \in PinIds |-> "INPUT"]
    /\ pinOut = [p \in PinIds |-> "LOW"]
    /\ echoLine = "LOW"
    /\ now = U32(0)
    /\ jumped = FALSE
    /\ unitArg = "CM"
    /\ startWait = U32(0)
    /\ pulseStart = U32(0)
    /\ pulseEnd = U32(0)
    /\ duration = U32(0)
    /\ result = Zero
    /\ gpioLog = <<>>
    /\ t = 0
    /\ tStartWait = NoTime
    /\ tPulseStart = NoTime
    /\ tPulseEnd = NoTime
    /\ tRise = NoTime
    /\ tFall = NoTime
    /\ tPoll = NoTime
    /\ echoChanges = 0
    /\ outcome = "none"
    /\ usedDefault = FALSE
    /\ lastCall = <<"none">>
    /\ got = <<"none">>
    /\ trace = <<>>
    /\ prev = NoRead
    /\ other = NoOther

\* MinimalUltrasonic(sigPin, timeOut) is MinimalUltrasonic(trigPin, echoPin)
Construct2Call(sigPin, timeOut) ==
    /\ ConstructMain(sigPin, Uint8(timeOut), DefaultTimeout)
    /\ lastCall' = <<"MinimalUltrasonic", sigPin, timeOut>>
    /\ got' = <<"none">>

Construct2 == \E sigPin \in Pins, timeOut \in TwoArgTimeouts : Construct2Call(sigPin, timeOut)

NextTwoArgs ==
    \/ Construct2 \/ C_ModeTrig \/ C_ModeEcho \/ C_WriteLow
    \/ getTimeout \/ getUnit

SpecTwoArgs == InitTwoArgs /\ [][NextTwoArgs]_vars

-----------------------------------------------------------------------------
(* Two sensors: a sketch with two sensor objects on pins of their own, as   *)
(* sensor2(10) and sensor3(8) in MultipleUltrasonicSensors.ino.  The        *)
(* variables trigPin .. defaultUnit are the members of the object the       *)
(* sketch is calling, other holds the members of its other object.          *)

\* the signal pin of each object
SensorPin(id) == 11 + id

\* the object the sketch is calling
ThisId == 3 - other.id

\* the sketch turns to its other object between two calls
Turn ==
    /\ pc \in {"new", "idle"}
    /\ pc' = IF other.constructed THEN "idle" ELSE "new"
    /\ trigPin' = other.trigPin
    /\ echoPin' = other.echoPin
    /\ isThreePin' = other.isThreePin
    /\ timeout' = other.timeout
    /\ defaultUnit' = other.defaultUnit
    /\ other' = [id |-> ThisId, constructed |-> (pc = "idle"),
                 trigPin |-> trigPin, echoPin |-> echoPin,
                 isThreePin |-> isThreePin, timeout |-> timeout,
                 defaultUnit |-> defaultUnit, frame |-> NoFrame]
    /\ lastCall' = <<"none">>
    /\ got' = <<"none">>
    /\ jumped' = FALSE
    /\ UNCHANGED <<hardware, gpioLog, unitArg, locals, duration, result, t,
                   observers, echoChanges, outcome, usedDefault, history>>

\* MinimalUltrasonic sensorN(pin)
TwoConstruct == Construct1Call(SensorPin(ThisId))

TwoSetTimeout == SetTimeoutCall(U32(1))

TwoSetMaxDistance == SetMaxDistanceCall(1)

\* sensorN.setUnit(unit), with the units the example sets
TwoSetUnit == setUnit /\ defaultUnit' \in {"CM", "METERS", "INCHES"}

NextTwoSensors ==
    \/ TwoConstruct \/ C_ModeTrig \/ C_ModeEcho \/ C_WriteLow
    \/ Turn
    \/ TwoSetTimeout \/ TwoSetMaxDistance \/ TwoSetUnit \/ getTimeout \/ getUnit
    \/ ReadNoArg \/ ReadReturn \/ Consume \/ Timing
    \/ Tick \/ EchoChange

SpecTwoSensors == Init /\ [][NextTwoSensors]_vars

-----------------------------------------------------------------------------
(* Two sensors used from two contexts, as sensor1(12, 13) and sensor2(10)   *)
(* of MultipleUltrasonicSensors.ino called from the loop and from an        *)
(* interrupt handler: control passes from one object's call to the other's  *)
(* between any two statements.  Each object is constructed and read once;   *)
(* other.frame keeps the position and the locals of the call that waits.    *)
(* The clock advances with the delays of either call, and the echo line     *)
(* takes any level when a read() starts.                                    *)

\* the pins wired to each sensor
InstancePins(id) == IF id = 1 THEN {12, 13} ELSE {10}

\* control passes to the call on the other object
Switch ==
    /\ pc' = other.frame.pc
    /\ trigPin' = other.trigPin
    /\ echoPin' = other.echoPin
    /\ isThreePin' = other.isThreePin
    /\ timeout' = other.timeout
    /\ defaultUnit' = other.defaultUnit
    /\ unitArg' = other.frame.unitArg
    /\ startWait' = other.frame.startWait
    /\ pulseStart' = other.frame.pulseStart
    /\ pulseEnd' = other.frame.pulseEnd
    /\ duration' = other.frame.duration
    /\ outcome' = other.frame.outcome
    /\ other' = [id |-> ThisId, constructed |-> (pc # "new"),
                 trigPin |-> trigPin, echoPin |-> echoPin,
                 isThreePin |-> isThreePin, timeout |-> timeout,
                 defaultUnit |-> defaultUnit,
                 frame |-> [pc |-> pc, unitArg |-> unitArg,
                            startWait |-> startWait, pulseStart |-> pulseStart,
                            pulseEnd |-> pulseEnd, duration |-> duration,
                            outcome |-> outcome]]
    /\ jumped' = FALSE
    /\ UNCHANGED <<hardware, gpioLog, result, t, observers, echoChanges,
                   usedDefault, sketch, history>>

\* MinimalUltrasonic sensor1(12, 13); MinimalUltrasonic sensor2(10);
InterleavedConstruct ==
    IF ThisId = 1 THEN Construct3Call(12, 13, U32(1)) ELSE Construct1Call(10)

\* sensorN.read(CM); the counter goes on from where it stands
InterleavedRead ==
    /\ BeginReadAt("CM", FALSE, {now})
    /\ UNCHANGED history

NextInterleaved ==
    \/ InterleavedConstruct \/ C_ModeTrig \/ C_ModeEcho \/ C_WriteLow
    \/ InterleavedRead \/ ReadReturn \/ Timing
    \/ Switch

SpecInterleaved == InitTwoArgs /\ [][NextInterleaved]_vars

TypeOK ==
    /\ pc \in {"new", "c_mode_trig", "c_mode_echo", "c_write_low", "idle",
               "t_mode_out", "t_low1", "t_delay2", "t_high", "t_delay10",
               "t_low2", "t_mode_in", "t_start_wait", "r_return", "returned"} \cup WaitPcs
    /\ isThreePin \in BOOLEAN
    /\ defaultUnit \in Units
    /\ unitArg \in Units
    /\ echoLine \in Levels
    /\ t \in 0..MaxTicks
    /\ echoChanges \in 0..MaxEchoChanges

-----------------------------------------------------------------------------
(* Claims *)

Returned == pc = "returned"

\* real time spent since startWait was taken
Waited == t - tStartWait

\* C1: if the echo line is not HIGH at any moment of the first
\* timeoutMicroseconds after the start of the HIGH-wait, timing() returns the
\* Timeout value 0 and read() returns exactly 0, whatever the unit and the pin
\* mode.
C1_NoEchoGivesZero ==
    (/\ Returned
     /\ IsSmall(timeout)
     /\ (tRise = NoTime \/ tRise > tStartWait + ToNat(timeout)))
    => (duration = U32(0) /\ result = Zero)

\* C2: if the echo line goes HIGH and is still HIGH at every moment of the
\* first timeoutMicroseconds after the HIGH waypoint and beyond, read() returns
\* exactly 0, the value of the other timeout.
C2_StuckHighGivesZero ==
    (/\ Returned
     /\ IsSmall(timeout)
     /\ tPulseStart # NoTime
     /\ (tFall = NoTime \/ tFall > tPulseStart + ToNat(timeout)))
    => (duration = U32(0) /\ result = Zero)

\* C3: with any timeout > 0, a read() that has been called eventually returns,
\* as long as the statements keep executing and the clock keeps advancing.
C3_ReadReturns == (pc = "t_mode_out") ~> Returned

\* C4 as stated: the echo waiting of a read() lasts at most 2 x
\* timeoutMicroseconds, and at most timeoutMicroseconds when the echo never
\* goes HIGH.
C4_BlocksAtMostTwoTimeouts ==
    (Returned /\ IsSmall(timeout))
    => /\ Waited <= 2 * ToNat(timeout)
       /\ (tRise = NoTime => Waited <= ToNat(timeout))

\* C4 amended: there are at most two wait phases, and a phase goes on only
\* while its latest poll found at most timeoutMicroseconds elapsed since its
\* waypoint; when the echo never goes HIGH the LOW-wait is not entered.
C4_EachWaitEndsAtFirstLatePoll ==
    /\ pc \in {"t_sample_high", "t_check_high"}
         => ~U32Gt(U32(tPoll - tStartWait), timeout)
    /\ pc \in {"t_sample_low", "t_check_low"}
         => ~U32Gt(U32(tPoll - tPulseStart), timeout)
    /\ (pc \in {"r_return", "returned"} /\ outcome = "timeout_high")
         => (U32Gt(U32(tPoll - tStartWait), timeout) /\ tPulseStart = NoTime)
    /\ (pc \in {"r_return", "returned"} /\ outcome = "timeout_low")
         => U32Gt(U32(tPoll - tPulseStart), timeout)
    /\ (pc \in {"r_return", "returned"} /\ tRise = NoTime)
         => (tPulseStart = NoTime /\ outcome = "timeout_high")

\* C4 witness: both windows were spent, and more than 2 x timeout of waiting
C4_Witness ==
    /\ Returned
    /\ outcome = "timeout_low"
    /\ IsSmall(timeout)
    /\ Waited > 2 * ToNat(timeout)

\* C5: a duration that timing() returns as a measurement is at most
\* timeoutMicroseconds.
C5_DurationWithinTimeout ==
    (Returned /\ outcome = "measured") => ~U32Gt(duration, timeout)

\* C6: an echo observed HIGH and then LOW yields a duration d with
\* 0 < d <= 2 x timeoutMicroseconds, and read() does not return 0 for it.
C6_MeasuredDurationPositive ==
    (Returned /\ outcome = "measured")
    => /\ U32Gt(duration, U32(0))
       /\ ~IsZero(result)
       /\ IsSmall(timeout) => (IsSmall(duration) /\ ToNat(duration) <= 2 * ToNat(timeout))

\* a poll of the timeout test at which exactly timeoutMicroseconds have elapsed
AtBoundaryPoll ==
    \/ pc = "t_check_high" /\ U32Sub(now, startWait) = timeout
    \/ pc = "t_check_low" /\ U32Sub(now, pulseStart) = timeout

\* C7: a poll at which the elapsed time equals timeoutMicroseconds does not
\* report Timeout, and a measured duration equal to the timeout is converted
\* by read() and is not 0.
C7_BoundaryIsNotTimeout ==
    /\ [][(AtBoundaryPoll /\ pc' # pc) => pc' \in {"t_sample_high", "t_sample_low"}]_vars
    /\ []((Returned /\ outcome = "measured" /\ duration = timeout)
            => (result = convertToUnit(timeout, unitArg) /\ ~IsZero(result)))

\* C7 witness: the last poll came exactly at the boundary and the pulse was
\* measured as exactly the timeout
C7_Witness ==
    /\ Returned
    /\ outcome = "measured"
    /\ duration = timeout
    /\ tPoll - tPulseStart = ToNat(timeout)
    /\ ~IsZero(result)

\* the writes and delays of the log, without the pinMode calls
RECURSIVE PulsePart(_)
PulsePart(log) ==
    IF log = <<>> THEN <<>>
    ELSE IF Head(log)[1] = "pinMode" THEN PulsePart(Tail(log))
    ELSE <<Head(log)>> \o PulsePart(Tail(log))

\* the echo line has been, or is about to be, sampled in this read()
PulseSent == pc \in {"t_start_wait", "r_return", "returned"} \cup WaitPcs

\* C8: before the first sample of the echo line the trigger pin is written
\* LOW, held 2 microseconds, written HIGH, held 10 microseconds and written
\* LOW, in this order, whatever the timeout, the unit and the pin mode; the
\* pulse takes 12 microseconds of the counter.
C8_TriggerPulseShape ==
    PulseSent =>
        /\ PulsePart(gpioLog) = << <<"digitalWrite", trigPin, "LOW">>,
                                   <<"delayMicroseconds", 2>>,
                                   <<"digitalWrite", trigPin, "HIGH">>,
                                   <<"delayMicroseconds", 10>>,
                                   <<"digitalWrite", trigPin, "LOW">> >>
        /\ pinOut[trigPin] = "LOW"
        /\ U32Sub(U32Sub(now, U32(t)), U32(2 + 10)) \in ClockStarts

\* C8 witness: the first sample of a single-pin read() in miles is due
C8_Witness ==
    /\ pc = "t_sample_high"
    /\ tPoll = tStartWait
    /\ isThreePin
    /\ unitArg = "MILES"
    /\ timeout = ULONG_MAX
    /\ Len(gpioLog) = 7

\* C9: in single-pin mode the shared pin is made an OUTPUT before the pulse
\* and an INPUT after the last LOW write and before the first sample, and it
\* is an INPUT whenever it is sampled.
C9_SinglePinDirection ==
    (isThreePin /\ PulseSent) =>
        /\ Len(gpioLog) = 7
        /\ gpioLog[1] = <<"pinMode", trigPin, "OUTPUT">>
        /\ gpioLog[6] = <<"digitalWrite", trigPin, "LOW">>
        /\ gpioLog[7] = <<"pinMode", trigPin, "INPUT">>
        /\ \A i \in 2..5 : gpioLog[i][1] # "pinMode"
        /\ pc \in WaitPcs => pinModeOf[echoPin] = "INPUT"

\* C9 witness: the shared pin is sampled in the LOW-wait
C9_Witness ==
    /\ isThreePin
    /\ pc = "t_sample_low"
    /\ echoLine = "HIGH"
    /\ pinModeOf[echoPin] = "INPUT"

\* C10: after setUnit(u), read() without an argument returns what read(u)
\* returns for the same measurement.
C10_ReadUsesDefaultUnit ==
    (Returned /\ usedDefault) => result = ReadResult(duration, defaultUnit)

Converted == pc = "converted"

RECURSIVE FracLess(_, _, _, _)
FracLess(a, b, c, d) ==
    IF a \div b # c \div d THEN a \div b < c \div d
    ELSE IF c % d = 0 THEN FALSE
    ELSE IF a % b = 0 THEN TRUE
    ELSE FracLess(d, c % d, b, a % b)

\* the value v of a small duration is within the relative error p / q of n / d
Within(v, n, d, p, q) ==
    /\ ~FracLess(ToNat(v.us) * v.num, v.den, n * (q - p), d * q)
    /\ ~FracLess(n * (q + p), d * q, ToNat(v.us) * v.num, v.den)

\* the documented distances of 5882 microseconds, as fractions
Documented(unit) ==
    CASE unit = "CM"     -> <<100, 1>>
      [] unit = "METERS" -> <<1, 1>>
      [] unit = "MM"     -> <<1000, 1>>
      [] unit = "INCHES" -> <<3937, 100>>
      [] unit = "YARDS"  -> <<109, 100>>
      [] unit = "MILES"  -> <<621, 1000000>>

\* C12: 5882 microseconds convert to 100.0 cm, 1.0 m, 1000.0 mm, 39.37 in,
\* 1.09 yd and 0.000621 mi, each within 0.01 relative error.
C12_DocumentedValues ==
    (Converted /\ duration = U32(5882))
    => Within(result, Documented(unitArg)[1], Documented(unitArg)[2], 1, 100)

\* the value v is the value c divided by p / q
IsScaled(v, c, p, q) ==
    /\ v.us = c.us
    /\ ~FracLess(v.num, v.den, c.num * q, c.den * p)
    /\ ~FracLess(c.num * q, c.den * p, v.num, v.den)

Value(a) == a[1] * Limb + a[2]

\* C14: for every distance d, setMaxDistance(d) followed by getTimeout()
\* returns d x 2 x 29.1 up to integer rounding, that is less than 1 away
\* from d x 58.2.
C14_MaxDistanceGivesRoundTrip ==
    (lastCall[1] = "setMaxDistance" /\ got[1] = "getTimeout")
    => 10 * Value(got[2]) - 582 * lastCall[2] \in (0 - 9)..9

\* C16: setTimeout(t) followed by getTimeout() returns exactly t, for every
\* t from 0 to ULONG_MAX: nothing is refused, clamped or rounded.
C16_TimeoutRoundTrip ==
    (lastCall[1] = "setTimeout" /\ got[1] = "getTimeout")
    => (got[2] = lastCall[2] /\ timeout = lastCall[2])

\* C16 witness: 0 was set and read back
C16_Witness ==
    /\ lastCall = <<"setTimeout", U32(0)>>
    /\ got = <<"getTimeout", U32(0)>>

\* the sketch's last call was the constructor with one argument
ByConstruct1 == lastCall[1] = "MinimalUltrasonic" /\ Len(lastCall) = 2

\* the sketch's last call was the constructor with trigger and echo pin
ByConstruct3 == lastCall[1] = "MinimalUltrasonic" /\ Len(lastCall) = 4

\* C19: MinimalUltrasonic(signalPin) gives a single-pin sensor with both
\* pins equal to signalPin, a timeout of 20000 and the unit CM, for every
\* pin id.
C19_Construct1Defaults ==
    ByConstruct1 =>
        /\ isThreePin
        /\ trigPin = lastCall[2]
        /\ echoPin = lastCall[2]
        /\ timeout = U32(20000)
        /\ defaultUnit = "CM"
        /\ got[1] = "getTimeout" => got[2] = U32(20000)
        /\ got[1] = "getUnit" => got[2] = "CM"

\* C19 witness: the sensor constructed on pin 13 reports its timeout
C19_Witness ==
    /\ pc = "idle"
    /\ lastCall = <<"MinimalUltrasonic", 13>>
    /\ got = <<"getTimeout", U32(20000)>>
    /\ isThreePin

C15_ReadsWithinMaxDistance ==
    \A d \in RangeDistances :
        (Returned /\ unitArg = "CM" /\ timeout = MaxDistanceTimeout(d))
        => /\ ~IsZero(result) => Value(result.us) * result.num <= d * result.den
           /\ (tRise # NoTime /\ tFall # NoTime /\ 10 * (tFall - tRise) > 582 * d)
                => result = Zero

\* the echo line and the clock did in this read() what they did in the
\* read() before, and the unit is the same
SameAsBefore == prev.valid /\ prev.unit = unitArg /\ prev.trace = trace

\* C17: a read() in which the echo line and the clock behave as in the
\* read() before it, with the same unit and the same configuration, returns
\* the same value and ends the same way, however many reads came before,
\* however they ended and wherever the counter stands.
C17_SameEchoSameResult ==
    (Returned /\ SameAsBefore)
    => (result = prev.result /\ outcome = prev.outcome)

\* C17 witness: a pulse measured a second time, with the counter wrapping
\* around in one of the two reads only
C17_Witness ==
    /\ Returned
    /\ SameAsBefore
    /\ outcome = "measured"
    /\ ~IsZero(result)
    /\ Len(trace) >= 4
    /\ prev.start # U32Sub(U32Sub(now, U32(t)), U32(2 + 10))

\* a read() is in progress: called and not yet returned to the sketch
Reading == pc \notin {"new", "c_mode_trig", "c_mode_echo", "c_write_low", "idle"}

\* C18: no step of a read(), from the call to the return of the value,
\* changes the pins, the single-pin flag, the timeout or the default unit,
\* whether the read() measures a pulse or times out in either wait; and once
\* the value is returned the sensor holds nothing of the measurement: the
\* next read() starts from the configuration alone.
C18_ReadKeepsConfiguration ==
    /\ [][(Reading \/ Reading') => config' = config]_vars
    /\ [](pc = "idle" =>
            /\ <<startWait, pulseStart, pulseEnd, duration>> = <<U32(0), U32(0), U32(0), U32(0)>>
            /\ outcome = "none"
            /\ result = Zero)

\* C18 witness: a read() in yards that timed out in the LOW-wait on a sensor
\* configured away from its defaults
C18_Witness ==
    /\ Returned
    /\ outcome = "timeout_low"
    /\ unitArg = "YARDS"
    /\ defaultUnit = "MILES"
    /\ timeout = U32(2)
    /\ isThreePin

\* the sketch's last call was the constructor with a pin and a timeout
ByConstruct2 == lastCall[1] = "MinimalUltrasonic" /\ Len(lastCall) = 3

\* C21: MinimalUltrasonic(signalPin, timeOut) gives a single-pin sensor on
\* signalPin whose getTimeout() is timeOut.
C21_Construct2IsSinglePinWithTimeout ==
    ByConstruct2 =>
        /\ isThreePin
        /\ trigPin = lastCall[2]
        /\ echoPin = lastCall[2]
        /\ timeout = lastCall[3]
        /\ got[1] = "getTimeout" => got[2] = lastCall[3]

\* the members of the object the sketch is not calling
OtherConfig == <<other.trigPin, other.echoPin, other.isThreePin, other.timeout,
                 other.defaultUnit>>

\* C22: no call on one sensor object, setTimeout, setMaxDistance, setUnit,
\* the getters and every step of a read() included, changes a member of the
\* other object; when the sketch turns to the other object it finds the
\* members as it left them, and the getters return them.
C22_ConfigurationIsPerInstance ==
    /\ [][/\ other'.id = other.id => other' = other
          /\ other'.id # other.id =>
                (config' = OtherConfig /\ OtherConfig' = config)]_vars
    /\ [](/\ got[1] = "getTimeout" => got[2] = timeout
          /\ got[1] = "getUnit" => got[2] = defaultUnit)

\* C22 witness: both objects were configured, each in its own way, one of
\* them was read, and the getter of the second object returns what was set
\* on it
C22_Witness ==
    /\ ThisId = 2
    /\ got = <<"getUnit", "INCHES">>
    /\ timeout = U32(1)
    /\ other.constructed
    /\ other.defaultUnit = "METERS"
    /\ other.timeout = U32(58)
    /\ gpioLog = <<>>

\* the pins, the single-pin flag, the pin modes, the output latches and the
\* calls made to the Arduino core
PinsAndGpio == <<trigPin, echoPin, isThreePin, pinModeOf, pinOut, gpioLog>>

\* C23: getTimeout() and getUnit() change no member and nothing of the
\* board; setTimeout and setMaxDistance change the timeout alone, setUnit the
\* default unit alone; none of them changes the pins or the single-pin flag
\* or calls pinMode, digitalWrite or delayMicroseconds.
C23_AccessorsFrame ==
    /\ [][(getTimeout \/ getUnit) => UNCHANGED <<config, PinsAndGpio, now>>]_vars
    /\ [][(ConfigSetTimeout \/ setMaxDistance)
             => UNCHANGED <<defaultUnit, PinsAndGpio, now>>]_vars
    /\ [][setUnit => UNCHANGED <<timeout, PinsAndGpio, now>>]_vars

\* C23 witness: the timeout and the unit were both set on a single-pin
\* sensor and read back, and the only calls to the Arduino core are the three
\* of the constructor
C23_Witness ==
    /\ lastCall = <<"setMaxDistance", 200>>
    /\ got = <<"getUnit", "MILES">>
    /\ timeout = U32(11640)
    /\ isThreePin
    /\ trigPin = 13
    /\ Len(gpioLog) = 3

\* C24: getUnit() after setUnit(u) returns u, for each of the six units, and
\* getUnit() on a sensor that was just constructed, by either constructor,
\* returns CM.
C24_UnitRoundTrip ==
    /\ (lastCall[1] = "setUnit" /\ got[1] = "getUnit")
          => (got[2] = lastCall[2] /\ defaultUnit = lastCall[2])
    /\ (lastCall[1] = "MinimalUltrasonic" /\ got[1] = "getUnit")
          => got[2] = "CM"

\* C24 witness: yards set and read back on a two-pin sensor
C24_Witness ==
    /\ lastCall = <<"setUnit", "YARDS">>
    /\ got = <<"getUnit", "YARDS">>
    /\ ~isThreePin

\* C25: while the constructor is the only call made on the sensor, no
\* pinMode and no digitalWrite has been called and every pin is as after
\* reset.
C25_ConstructorTouchesNoPin ==
    lastCall[1] = "MinimalUltrasonic" =>
        /\ gpioLog = <<>>
        /\ pinModeOf = [p \in Pins |-> "INPUT"]
        /\ pinOut = [p \in Pins |-> "LOW"]

\* the echo line was LOW when the read() was called
StartedLow == (echoLine = "LOW") = (echoChanges % 2 = 0)

\* C26: when the echo line, LOW until then, goes HIGH for the first time more
\* than timeoutMicroseconds after the start of the HIGH-wait, timing()
\* returns the Timeout value 0 and read() returns 0: the length of the late
\* pulse is not returned.
C26_LateRiseIsTimeout ==
    (/\ Returned
     /\ IsSmall(timeout)
     /\ StartedLow
     /\ tRise # NoTime
     /\ tRise > tStartWait + ToNat(timeout))
    => (duration = U32(0) /\ result = Zero)

Measured == pc \in {"r_return", "returned"} /\ outcome = "measured"

\* C28: the duration of a successful measurement is the value of micros()
\* taken after the echo was sampled LOW minus the value taken after it was
\* sampled HIGH, which is the time that passed between the two; the 12
\* microseconds of the trigger pulse and the time between startWait and
\* pulseStart are not in it.
C28_DurationIsPulseEndMinusPulseStart ==
    Measured =>
        /\ duration = U32Sub(pulseEnd, pulseStart)
        /\ duration = U32(tPulseEnd - tPulseStart)
        /\ U32Sub(pulseEnd, startWait) = U32((tPulseStart - tStartWait) + (tPulseEnd - tPulseStart))
        /\ Returned => result = ReadResult(U32(tPulseEnd - tPulseStart), unitArg)

\* C28 witness: a pulse of 1 microsecond measured after 3 microseconds of
\* HIGH-wait
C28_Witness ==
    /\ Returned
    /\ outcome = "measured"
    /\ tPulseStart - tStartWait = 3
    /\ duration = U32(1)
    /\ result = convertToUnit(U32(1), unitArg)
    /\ unitArg = "MM"

\* the phases of a read(), in the order of the code
Phase(p) ==
    CASE p = "t_mode_out" -> 1
      [] p = "t_low1" -> 2
      [] p = "t_delay2" -> 3
      [] p = "t_high" -> 4
      [] p = "t_delay10" -> 5
      [] p = "t_low2" -> 6
      [] p = "t_mode_in" -> 7
      [] p = "t_start_wait" -> 8
      [] p \in {"t_sample_high", "t_check_high"} -> 9
      [] p = "t_pulse_start" -> 10
      [] p \in {"t_sample_low", "t_check_low"} -> 11
      [] p = "t_pulse_end" -> 12
      [] p = "r_return" -> 13
      [] p = "returned" -> 14
      [] OTHER -> 0

\* the writes to the trigger pin in the log
RECURSIVE TriggerWrites(_)
TriggerWrites(log) ==
    IF log = <<>> THEN <<>>
    ELSE IF Head(log)[1] = "digitalWrite"
         THEN <<Head(log)[3]>> \o TriggerWrites(Tail(log))
         ELSE TriggerWrites(Tail(log))

\* C29: a read() writes LOW, HIGH, LOW to the trigger pin once and never
\* goes back to an earlier phase: it sends one pulse, takes startWait once
\* and pulseStart at most once, and returns after the measurement, after
\* the HIGH-wait timeout or after the LOW-wait timeout without trying again.
C29_OnePulseOneAttempt ==
    /\ [][(Reading /\ Reading') => Phase(pc') >= Phase(pc)]_vars
    /\ [][(pc \in {"t_check_high", "t_check_low", "t_pulse_end"} /\ outcome' # outcome)
             => (pc' = "r_return" /\ outcome = "none")]_vars
    /\ [](pc \in {"r_return", "returned"} =>
            /\ TriggerWrites(gpioLog) = <<"LOW", "HIGH", "LOW">>
            /\ outcome \in {"measured", "timeout_high", "timeout_low"}
            /\ (outcome = "timeout_high") = (tPulseStart = NoTime)
            /\ (outcome = "measured") = (tPulseEnd # NoTime))

\* C29 witness: a read() that timed out in the LOW-wait has returned with
\* the one pulse in its log
C29_Witness ==
    /\ Returned
    /\ outcome = "timeout_low"
    /\ TriggerWrites(gpioLog) = <<"LOW", "HIGH", "LOW">>
    /\ ~isThreePin
    /\ Len(gpioLog) = 5

\* the counter has wrapped around since the waypoint w was taken: its value
\* is below the waypoint's
WrappedSince(w) == U32Gt(w, Micros)

\* C30: a poll that comes after the counter has wrapped around since the
\* waypoint reports Timeout exactly when more than timeoutMicroseconds have
\* passed since the waypoint, in the HIGH-wait and in the LOW-wait, and a
\* measurement whose pulseEnd is below its pulseStart returns the time that
\* passed between the two.
C30_WrapAroundIsHarmless ==
    /\ [][(pc = "t_check_high" /\ pc' # pc /\ WrappedSince(startWait) /\ IsSmall(timeout))
             => ((pc' = "r_return") <=> (t - tStartWait > ToNat(timeout)))]_vars
    /\ [][(pc = "t_check_low" /\ pc' # pc /\ WrappedSince(pulseStart) /\ IsSmall(timeout))
             => ((pc' = "r_return") <=> (t - tPulseStart > ToNat(timeout)))]_vars
    /\ []((Measured /\ U32Gt(pulseStart, pulseEnd))
             => (/\ duration = U32(tPulseEnd - tPulseStart)
                 /\ Returned => result = convertToUnit(U32(tPulseEnd - tPulseStart), unitArg)))

\* C30 witness: the counter wrapped around during a pulse of 2 microseconds
\* that was polled once after the wrap and then measured
C30_Witness ==
    /\ Returned
    /\ outcome = "measured"
    /\ pulseStart = ULONG_MAX
    /\ pulseEnd = U32(1)
    /\ tPoll > tPulseStart
    /\ duration = U32(2)
    /\ ~IsZero(result)

\* the latest call to the Arduino core is a digitalWrite
JustWritten == gpioLog # <<>> /\ gpioLog[Len(gpioLog)][1] = "digitalWrite"

\* C31: the pin of every digitalWrite, in the constructor and in read(), is
\* an OUTPUT when it is written, in two-pin and in single-pin mode.
C31_WritesOnOutputPin ==
    JustWritten =>
        /\ gpioLog[Len(gpioLog)][2] = trigPin
        /\ pinModeOf[trigPin] = "OUTPUT"

\* no read() is running: the constructor has returned, or timing() has
TimingDone == pc \in {"idle", "r_return", "returned"}

ThisPins == InstancePins(ThisId)
OtherPins == InstancePins(other.id)

\* the latest call to the Arduino core names a pin
LoggedPin(log) == log # <<>> /\ log[Len(log)][1] \in {"pinMode", "digitalWrite"}

\* C33: with two objects on pins of their own, whatever the order in which
\* the statements of their constructors and read() calls are executed, a
\* statement of one object's call changes no mode and no latch of a pin of
\* the other object, names no such pin in pinMode or digitalWrite, and
\* samples its own echo pin.
C33_OwnPinsOnly ==
    /\ [][\A p \in OtherPins : pinModeOf'[p] = pinModeOf[p] /\ pinOut'[p] = pinOut[p]]_vars
    /\ [][(Len(gpioLog') = Len(gpioLog) + 1 /\ LoggedPin(gpioLog'))
             => (gpioLog'[Len(gpioLog')][2] \in ThisPins \ OtherPins)]_vars
    /\ [](pc # "new" => ({trigPin, echoPin} \subseteq ThisPins
                         /\ {trigPin, echoPin} \cap OtherPins = {}))
    /\ [](pc \in {"t_sample_high", "t_sample_low"} => echoPin \in ThisPins \ OtherPins)

\* C33 witness: the single-pin sensor is in the middle of its trigger pulse
\* while the read() of the two-pin sensor waits in its LOW-wait
C33_Witness ==
    /\ ThisId = 2
    /\ pc = "t_delay10"
    /\ pinModeOf[10] = "OUTPUT"
    /\ pinOut[10] = "HIGH"
    /\ other.frame.pc = "t_check_low"
    /\ pinModeOf[12] = "OUTPUT"
    /\ pinOut[12] = "LOW"
    /\ pinModeOf[13] = "INPUT"

Constructed == pc # "new"

-----------------------------------------------------------------------------
(* Lemmas: what the code does guarantee where claims fail *)

\* the echo line stays LOW for the whole HIGH-wait: Timeout, and read() is 0
StaysLowGivesZero ==
    (Returned /\ tRise = NoTime)
    => (outcome = "timeout_high" /\ duration = U32(0) /\ result = Zero)

\* the echo line goes HIGH and stays HIGH for the whole LOW-wait: Timeout, and
\* read() returns the same 0
StaysHighGivesZero ==
    (Returned /\ tPulseStart # NoTime /\ tFall = NoTime)
    => (outcome = "timeout_low" /\ duration = U32(0) /\ result = Zero)

\* with a timeout below ULONG_MAX a read() that has been called returns
ReturnsBelowMax == (pc = "t_mode_out" /\ timeout # ULONG_MAX) ~> Returned

\* what holds where C12 fails: 5882 microseconds convert to the documented
\* values within 0.015 relative error
\* what holds where C14 fails: the timeout is the integer part of
\* (d mod 32768) x 58.2, so it is that of d x 58.2 for d <= 32767
MaxDistanceModuloOverflow ==
    (lastCall[1] = "setMaxDistance" /\ got[1] = "getTimeout")
    => Value(got[2]) = (582 * (lastCall[2] % ((UINT_MAX + 1) \div 2))) \div 10

\* what holds where C15 fails: a measured duration that is within the timeout
\* set by setMaxDistance(d) is at most d centimetres
WithinTimeoutWithinMaxDistance ==
    \A d \in RangeDistances :
        (/\ Returned
         /\ unitArg = "CM"
         /\ timeout = MaxDistanceTimeout(d)
         /\ outcome = "measured"
         /\ ~U32Gt(duration, timeout))
        => Value(result.us) * result.num <= d * result.den

\* what holds where C21 fails: the second argument is the echo pin, cut to
\* eight bits, and the timeout is the default
TwoArgumentsAreTrigAndEcho ==
    ByConstruct2 =>
        /\ trigPin = lastCall[2]
        /\ echoPin = lastCall[3][2] % 256
        /\ isThreePin = (trigPin = echoPin)
        /\ timeout = U32(20000)
        /\ got[1] = "getTimeout" => got[2] = U32(20000)

\* what holds where C25 fails: the constructor has set the trigger pin to
\* output, then the echo pin to input, and has written LOW to the trigger pin
ConstructorInitialisesPins ==
    (pc = "idle" /\ lastCall[1] = "MinimalUltrasonic") =>
        gpioLog = << <<"pinMode", trigPin, "OUTPUT">>,
                     <<"pinMode", echoPin, "INPUT">>,
                     <<"digitalWrite", trigPin, "LOW">> >>

\* what holds where C31 fails: the pin is an OUTPUT at every digitalWrite of
\* a read(), and at the constructor's digitalWrite of a two-pin sensor
WritesOnOutputPinButSinglePinConstructor ==
    (JustWritten /\ ~(isThreePin /\ pc = "idle" /\ Len(gpioLog) = 3))
        => pinModeOf[trigPin] = "OUTPUT"

DocumentedValuesWithin15 ==
    (Converted /\ duration = U32(5882))
    => Within(result, Documented(unitArg)[1], Documented(unitArg)[2], 3, 200)

====
